---- MODULE Spec2Model ----
(***************************************************************************)
(* PrioritizedReplayBuffer of utils.py: a ring of n-step transitions with  *)
(* per-slot priorities, a running maximum priority, an annealed beta and a *)
(* three-entry pending window (deque(maxlen=3)).                           *)
(*                                                                         *)
(* Numbers.  Rewards and gamma are exact rationals <<num, den>> in lowest  *)
(* terms with den > 0.  Priorities are integers (1 stands for 1.0).  beta  *)
(* and beta_increment are counted in units of 1/BetaOne, so BetaOne stands *)
(* for the 1.0 beta is clamped to.  alpha is 0 or 1.                       *)
(***************************************************************************)
EXTENDS Integers, Sequences, FiniteSets, TLC

----------------------------------------------------------------------------
(* Bounds of the exploration: how many calls each caller makes *)
MaxAdds == 5         \* add calls of the callers of SpecRing and SpecFixed
MaxOthers == 1       \* their sample and update_priorities calls
MaxDefaultAdds == 4  \* add calls of the caller of Spec
MaxDefaultOthers == 3 \* its sample and update_priorities calls
MaxLiveAdds == 3     \* add calls of the caller of SpecLive, which never stops sampling

(* Program constants *)
WindowLen == 3
InitMaxPriority == 1
BetaOne == 4
DefaultNStep == 3

(* Input domains *)
Capacities == {1, 2, 3, 4}
SmallCapacities == {1, 2}
Alphas == {0, 1}
Betas == {2}
BetaIncrements == {0, 1, 3}
NSteps == {1, 2, 3, 4}
DefaultGamma == <<99, 100>>
Gammas == {<<1, 2>>, DefaultGamma}
PriorityValues == {0, 1, 2}
BatchSizes == {0, 1, 2}
PairCounts == {0, 1, 2}

VARIABLES
    capacity,        \* self.capacity
    alpha,           \* self.alpha
    beta,            \* self.beta, in units of 1/BetaOne
    beta_increment,  \* self.beta_increment, in units of 1/BetaOne
    buffer,          \* self.buffer: sequence of committed transitions; slot i is buffer[i+1]
    priorities,      \* self.priorities: [0..capacity-1 -> Int]
    pos,             \* self.pos: the write cursor
    max_priority,    \* self.max_priority
    n_step_buffer,   \* self.n_step_buffer: deque(maxlen=3) of raw experiences
    caller,          \* the training loop: the n_step, gamma and done values it passes, how many calls it
                     \* makes and how many pairs it gives update_priorities
    ret,             \* the last call: its name, result and exception
    hist             \* history of the calls made so far (not program state)

store == <<capacity, alpha, beta, beta_increment, buffer, priorities, pos,
           max_priority, n_step_buffer>>
vars == <<capacity, alpha, beta, beta_increment, buffer, priorities, pos,
          max_priority, n_step_buffer, caller, ret, hist>>

size == Len(buffer)

----------------------------------------------------------------------------
(* Exact rational arithmetic for the reward fold *)
Abs(x) == IF x < 0 THEN -x ELSE x
Max2(a, b) == IF b > a THEN b ELSE a
Min2(a, b) == IF b < a THEN b ELSE a

RECURSIVE GCD(_, _)
GCD(a, b) == IF b = 0 THEN a ELSE GCD(b, a % b)

RNorm(q) ==
    LET g == GCD(Abs(q[1]), q[2])
    IN  IF q[1] = 0 THEN <<0, 1>> ELSE <<q[1] \div g, q[2] \div g>>
RAdd(p, q) == RNorm(<<p[1] * q[2] + q[1] * p[2], p[2] * q[2]>>)
RMul(p, q) == RNorm(<<p[1] * q[1], p[2] * q[2]>>)
RInt(n) == <<n, 1>>
RDiv(p, q) == RNorm(<<p[1] * q[2], p[2] * q[1]>>)
RLeq(p, q) == p[1] * q[2] <= q[1] * p[2]

----------------------------------------------------------------------------
(* The k-th raw experience handed to add: distinct markers for state,      *)
(* action and next_state, reward k, and a done flag chosen by the caller.  *)
Experience(k, d) ==
    [state |-> <<"s", k>>, action |-> <<"a", k>>, reward |-> RInt(k),
     next_state |-> <<"ns", k>>, done |-> d]

(* deque(maxlen=3).append: drops the oldest entry when full *)
DequeAppend(dq, e) ==
    IF Len(dq) = WindowLen THEN Append(Tail(dq), e) ELSE Append(dq, e)

(* line 189: the commit condition *)
WindowReady(dq, n_step) == Len(dq) = n_step

(* lines 191-196: reward seeded from the newest entry, then              *)
(* for i in range(1, n_step-1): reward = buf[i][2] + gamma * reward        *)
RECURSIVE FoldReward(_, _, _, _, _)
FoldReward(dq, i, stop, gamma, reward) ==
    IF i >= stop THEN reward
    ELSE FoldReward(dq, i + 1, stop, gamma,
                    RAdd(dq[i + 1].reward, RMul(gamma, reward)))

(* the fold started at index 0, so that it takes in the oldest reward *)
NStepRewardFromZero(dq, n_step, gamma) ==
    FoldReward(dq, 0, n_step - 1, gamma, dq[Len(dq)].reward)

(* lines 191-196 *)
NStepReward(dq, n_step, gamma) ==
    FoldReward(dq, 1, n_step - 1, gamma, dq[Len(dq)].reward)

(* state and action read from the newest entry instead of the oldest *)
NStepTransitionNewest(dq, n_step, gamma) ==
    [state |-> dq[Len(dq)].state, action |-> dq[Len(dq)].action,
     reward |-> NStepReward(dq, n_step, gamma),
     next_state |-> dq[Len(dq)].next_state, done |-> dq[Len(dq)].done]

(* lines 190-191, 201: the committed tuple *)
NStepTransition(dq, n_step, gamma) ==
    [state |-> dq[1].state, action |-> dq[1].action,
     reward |-> NStepReward(dq, n_step, gamma),
     next_state |-> dq[Len(dq)].next_state, done |-> dq[Len(dq)].done]

(* the transition always written to the last slot, as a plain append would *)
StoreSlotLast(buf, p, cap, tr) ==
    LET grown == IF Len(buf) < cap THEN Append(buf, "None") ELSE buf
    IN  [grown EXCEPT ![Len(grown)] = tr]

(* lines 199-201: grow by one slot while below capacity, then write slot pos *)
StoreSlot(buf, p, cap, tr) ==
    LET grown == IF Len(buf) < cap THEN Append(buf, "None") ELSE buf
    IN  [grown EXCEPT ![p + 1] = tr]

(* a new slot seeded with the constant 1.0 instead of max_priority *)
SeedPriorityOne(prios, p, mp) == [prios EXCEPT ![p] = InitMaxPriority]

(* the commit resetting every slot's priority to max_priority *)
SeedPriorityAll(prios, p, mp) == [i \in DOMAIN prios |-> mp]

(* line 202 *)
SeedPriority(prios, p, mp) == [prios EXCEPT ![p] = mp]

(* the cursor advanced without wrapping *)
NextPosNoWrap(p, cap) == p + 1

(* line 203 *)
NextPos(p, cap) == (p + 1) % cap

----------------------------------------------------------------------------
NoRet == [op |-> "init", err |-> "none", committed |-> FALSE,
          raised |-> 0, between |-> 0,
          first_oob |-> 0, applied |-> 0, batch_size |-> 0,
          samples |-> <<>>, indices |-> <<>>, weights |-> <<>>, wbeta |-> 0]

InitHist ==
    [adds |-> 0, others |-> 0,
     tick |-> 0,             \* flips at every call
     committed |-> <<>>,     \* every committed transition, in commit order
     commit_at |-> <<>>,     \* the number of the add call that made each commit
     raised |-> 0,           \* p, after a lone update_priorities([i],[p]) that raised max_priority
     between |-> 0,          \* the sample calls made since that call
     passed_max |-> InitMaxPriority,   \* max of 1.0 and every priority handed to update_priorities
     applied_max |-> InitMaxPriority,  \* max of 1.0 and every priority update_priorities wrote
     in_range |-> TRUE,      \* every update_priorities index so far was in [0, size)
     sampled |-> {}]         \* the indices sample has returned so far, kept for the caller
                             \* that feeds them back to update_priorities

InitStore(caps, alphas, incs) ==
    /\ capacity \in caps
    /\ alpha \in alphas
    /\ beta \in Betas
    /\ beta_increment \in incs
    /\ buffer = <<>>
    /\ priorities = [i \in 0..(capacity - 1) |-> 0]
    /\ pos = 0
    /\ max_priority = InitMaxPriority
    /\ n_step_buffer = <<>>
    /\ ret = NoRet
    /\ hist = InitHist

(* the caller that leaves n_step and gamma at their defaults *)
Init ==
    /\ InitStore(SmallCapacities, Alphas, {0, 3})
    /\ caller = [n_steps |-> {DefaultNStep}, gamma |-> DefaultGamma, dones |-> {FALSE},
                 adds |-> MaxDefaultAdds, others |-> MaxDefaultOthers,
                 pairs |-> PairCounts, live |-> FALSE, indices |-> "any"]

(* a caller that may pass any n_step on any call *)
InitRing ==
    /\ InitStore(Capacities, {1}, {1})
    /\ \E g \in Gammas :
          caller = [n_steps |-> NSteps, gamma |-> g, dones |-> {FALSE},
                    adds |-> MaxAdds, others |-> MaxOthers, pairs |-> {1}, live |-> FALSE, indices |-> "any"]

(* a caller that passes one n_step and one gamma of its choice on every call *)
InitFixed ==
    /\ InitStore({2, 4}, {1}, {1})
    /\ \E n \in NSteps, g \in Gammas :
          caller = [n_steps |-> {n}, gamma |-> g, dones |-> BOOLEAN,
                    adds |-> MaxAdds, others |-> MaxOthers, pairs |-> {1}, live |-> FALSE, indices |-> "any"]

(* the default-argument caller that gives update_priorities only indices that an *)
(* earlier sample call returned                                                 *)
InitSampled ==
    /\ InitStore(SmallCapacities, Alphas, {1})
    /\ caller = [n_steps |-> {DefaultNStep}, gamma |-> DefaultGamma, dones |-> {FALSE},
                 adds |-> MaxDefaultAdds, others |-> MaxDefaultOthers,
                 pairs |-> PairCounts, live |-> FALSE, indices |-> "sampled"]

(* the default-argument caller in a training loop that never stops calling sample *)
(* and update_priorities                                                         *)
InitLive ==
    /\ InitStore({2}, {1}, BetaIncrements)
    /\ caller = [n_steps |-> {DefaultNStep}, gamma |-> DefaultGamma, dones |-> {FALSE},
                 adds |-> MaxLiveAdds, others |-> 1, pairs |-> {1}, live |-> TRUE, indices |-> "any"]

(* the caller may make another sample or update_priorities call *)
MayCall == caller.live \/ hist.others < caller.others
CountCall(n) == IF caller.live THEN n ELSE n + 1

----------------------------------------------------------------------------
(* add(experience, n_step, gamma): lines 185-203 *)
Add(d, n_step, gamma) ==
    LET k == hist.adds + 1
        dq == DequeAppend(n_step_buffer, Experience(k, d))
        commit == WindowReady(dq, n_step)
        tr == NStepTransition(dq, n_step, gamma)
    IN  /\ hist.adds < caller.adds
        /\ n_step_buffer' = dq
        /\ IF commit
           THEN /\ buffer' = StoreSlot(buffer, pos, capacity, tr)
                /\ priorities' = SeedPriority(priorities, pos, max_priority)
                /\ pos' = NextPos(pos, capacity)
           ELSE UNCHANGED <<buffer, priorities, pos>>
        /\ ret' = [NoRet EXCEPT !.op = "add", !.committed = commit,
                                !.raised = IF commit THEN hist.raised ELSE 0,
                                !.between = IF commit THEN hist.between ELSE 0]
        /\ hist' = [hist EXCEPT
                      !.adds = k,
                      !.tick = 1 - @,
                      !.committed = IF commit THEN Append(@, tr) ELSE @,
                      !.commit_at = IF commit THEN Append(@, k) ELSE @,
                      !.raised = IF commit THEN 0 ELSE @,
                      !.between = IF commit THEN 0 ELSE @]
        /\ UNCHANGED <<capacity, alpha, beta, beta_increment, max_priority, caller>>

AddCall == \E d \in caller.dones, n_step \in caller.n_steps : Add(d, n_step, caller.gamma)

----------------------------------------------------------------------------
(* sample(batch_size): lines 205-220 *)

(* a power that gives 0 ** 0 = 0 *)
RECURSIVE PowZero(_, _)
PowZero(x, a) == IF x = 0 THEN 0 ELSE IF a = 0 THEN 1 ELSE x * PowZero(x, a - 1)

(* line 210: priorities ** alpha, with numpy's 0 ** 0 = 1 *)
RECURSIVE Pow(_, _)
Pow(x, a) == IF a = 0 THEN 1 ELSE x * Pow(x, a - 1)

(* lines 209-210: the unnormalised probabilities of the occupied slots *)
Probs(prios, n, a) == [i \in 0..(n - 1) |-> Pow(prios[i], a)]

RECURSIVE SumTo(_, _)
SumTo(f, n) == IF n = 0 THEN 0 ELSE f[n - 1] + SumTo(f, n - 1)

(* lines 209-211: probs /= probs.sum(), the probability of every occupied slot *)
SampleProbs(prios, n, a) ==
    LET q == Probs(prios, n, a)
    IN  [i \in 0..(n - 1) |-> RNorm(<<q[i], SumTo(q, n)>>)]

(* line 211 dividing the stored priorities themselves, as it would if probs were *)
(* still the view of line 209                                                    *)
PrioritiesWrittenThrough(prios, n, a) ==
    [i \in DOMAIN prios |-> IF i < n /\ SumTo(Probs(prios, n, a), n) > 0
                            THEN Pow(prios[i], a) \div SumTo(Probs(prios, n, a), n)
                            ELSE prios[i]]

(* lines 209-211: priorities ** alpha at line 210 is a new array, so the in-place *)
(* division of line 211 leaves self.priorities as it was                        *)
PrioritiesAfterSample(prios, n, a) == prios

(* every slot drawn alike, whatever its probability *)
DrawsAny(p, n, batch_size) == [1..batch_size -> 0..(n - 1)]

(* line 213: np.random.choice draws, with replacement, slots of positive probability *)
Draws(p, n, batch_size) ==
    [1..batch_size -> {i \in 0..(n - 1) : p[i][1] > 0}]

SeqMin(f) == CHOOSE m \in {f[k] : k \in DOMAIN f} : \A k \in DOMAIN f : RLeq(m, f[k])

(* lines 216-217: weights = (N * probs[indices]) ** (-beta); weights /= weights.max(). *)
(* With u_k = N * probs[indices[k]], the largest raw weight is that of the smallest   *)
(* u (beta >= 0), so the k-th normalised weight is (umin / u_k) ** beta: this gives   *)
(* its base umin / u_k; the exponent is the beta of the call.                         *)
WeightBases(p, n, indices) ==
    LET u == [k \in DOMAIN indices |-> RMul(RInt(n), p[indices[k]])]
        umin == SeqMin(u)
    IN  [k \in DOMAIN indices |-> RDiv(umin, u[k])]

(* line 218 *)
Anneal(b, inc) == Min2(BetaOne, b + inc)

(* the indices a sample call handed back *)
Returned(r) == {r.indices[k] : k \in DOMAIN r.indices}

SampleReturns(indices) ==
    LET p == SampleProbs(priorities, size, alpha)
    IN  /\ ret' = [NoRet EXCEPT !.op = "sample",
                      !.batch_size = Len(indices),
                      !.samples = [k \in DOMAIN indices |-> buffer[indices[k] + 1]],
                      !.indices = indices,
                      !.weights = WeightBases(p, size, indices),
                      !.wbeta = beta]
        /\ beta' = Anneal(beta, beta_increment)

(* sample without the empty-store return of lines 206-207 *)
SampleNoGuard(batch_size) ==
    LET q == Probs(priorities, size, alpha)
    IN  /\ MayCall
        /\ IF SumTo(q, size) = 0
           THEN /\ ret' = [NoRet EXCEPT !.op = "sample", !.err = "ValueError",
                                        !.batch_size = batch_size]
                /\ UNCHANGED beta
           ELSE IF batch_size = 0
           THEN /\ ret' = [NoRet EXCEPT !.op = "sample", !.err = "ValueError",
                                        !.batch_size = batch_size]
                /\ UNCHANGED beta
           ELSE \E indices \in Draws(SampleProbs(priorities, size, alpha), size, batch_size) :
                    SampleReturns(indices)
        /\ hist' = [hist EXCEPT !.others = CountCall(@),
                                 !.tick = 1 - @,
                                 !.between = IF hist.raised # 0
                                             THEN Min2(@ + 1, caller.others) ELSE @,
                                 !.sampled = IF caller.indices = "sampled"
                                             THEN @ \cup Returned(ret') ELSE @]
        /\ priorities' = PrioritiesAfterSample(priorities, size, alpha)
        /\ UNCHANGED <<capacity, alpha, beta_increment, buffer, pos,
                       max_priority, n_step_buffer, caller>>

Sample(batch_size) ==
    LET q == Probs(priorities, size, alpha)
    IN  /\ MayCall
        /\ IF size = 0
           THEN \* lines 206-207
                /\ ret' = [NoRet EXCEPT !.op = "sample", !.batch_size = batch_size]
                /\ UNCHANGED beta
           ELSE IF SumTo(q, size) = 0
           THEN \* line 211 divides by zero: probs are NaN and line 213 raises
                /\ ret' = [NoRet EXCEPT !.op = "sample", !.err = "ValueError",
                                        !.batch_size = batch_size]
                /\ UNCHANGED beta
           ELSE IF batch_size = 0
           THEN \* line 217: max() of an empty array raises
                /\ ret' = [NoRet EXCEPT !.op = "sample", !.err = "ValueError",
                                        !.batch_size = batch_size]
                /\ UNCHANGED beta
           ELSE \E indices \in Draws(SampleProbs(priorities, size, alpha), size, batch_size) :
                    SampleReturns(indices)
        /\ hist' = [hist EXCEPT !.others = CountCall(@),
                                 !.tick = 1 - @,
                                 !.between = IF hist.raised # 0
                                             THEN Min2(@ + 1, caller.others) ELSE @,
                                 !.sampled = IF caller.indices = "sampled"
                                             THEN @ \cup Returned(ret') ELSE @]
        /\ priorities' = PrioritiesAfterSample(priorities, size, alpha)
        /\ UNCHANGED <<capacity, alpha, beta_increment, buffer, pos,
                       max_priority, n_step_buffer, caller>>

SampleCall == \E batch_size \in BatchSizes : Sample(batch_size)

----------------------------------------------------------------------------
(* update_priorities(indices, priorities): lines 222-225 *)

(* numpy indexing of an array of length cap: negative indices count from the end *)
InBounds(idx, cap) == -cap <= idx /\ idx < cap
SlotOf(idx, cap) == IF idx < 0 THEN idx + cap ELSE idx

(* max_priority assigned the new priority instead of the maximum *)
NewMaxPriorityAssign(mp, p) == p

(* line 225 *)
NewMaxPriority(mp, p) == Max2(mp, p)

(* lines 223-225: the pairs in order; an index out of bounds raises IndexError at *)
(* line 224, before line 225 and before the later pairs                           *)
RECURSIVE ApplyPairs(_, _, _, _, _)
ApplyPairs(pairs, k, prios, mp, cap) ==
    IF k > Len(pairs) THEN [prios |-> prios, mp |-> mp, err |-> "none", applied |-> k - 1]
    ELSE IF ~InBounds(pairs[k][1], cap)
    THEN [prios |-> prios, mp |-> mp, err |-> "IndexError", applied |-> k - 1]
    ELSE ApplyPairs(pairs, k + 1,
                    [prios EXCEPT ![SlotOf(pairs[k][1], cap)] = pairs[k][2]],
                    NewMaxPriority(mp, pairs[k][2]), cap)

RECURSIVE MaxOver(_, _, _)
MaxOver(pairs, n, m) == IF n = 0 THEN m ELSE MaxOver(pairs, n - 1, Max2(m, pairs[n][2]))

UpdatePriorities(pairs) ==
    LET r == ApplyPairs(pairs, 1, priorities, max_priority, capacity)
        oob == {k \in DOMAIN pairs : ~(0 <= pairs[k][1] /\ pairs[k][1] < size)}
    IN  /\ MayCall
        /\ priorities' = r.prios
        /\ max_priority' = r.mp
        /\ ret' = [NoRet EXCEPT !.op = "update_priorities", !.err = r.err,
                      !.first_oob = IF oob = {} THEN 0
                                    ELSE CHOOSE k \in oob : \A j \in oob : k <= j,
                      !.applied = r.applied]
        /\ hist' = [hist EXCEPT
                      !.others = CountCall(@),
                      !.tick = 1 - @,
                      !.raised = IF Len(pairs) = 1 /\ r.err = "none"
                                    /\ pairs[1][2] > max_priority
                                 THEN pairs[1][2] ELSE 0,
                      !.between = 0,
                      !.passed_max = MaxOver(pairs, Len(pairs), @),
                      !.applied_max = MaxOver(pairs, r.applied, @),
                      !.in_range = @ /\ oob = {}]
        /\ UNCHANGED <<capacity, alpha, beta, beta_increment, buffer, pos,
                       n_step_buffer, caller>>

(* indices a caller may pass: -1 (numpy counts it from the end), every slot, and
   capacity itself (out of bounds); or only what sample has returned *)
Indices == IF caller.indices = "sampled" THEN hist.sampled ELSE (-1)..capacity
PairSeqs == UNION {[1..n -> Indices \X PriorityValues] : n \in caller.pairs}

UpdateCall == \E pairs \in PairSeqs : UpdatePriorities(pairs)

----------------------------------------------------------------------------
Next == AddCall \/ SampleCall \/ UpdateCall

Spec == Init /\ [][Next]_vars
SpecRing == InitRing /\ [][Next]_vars
SpecFixed == InitFixed /\ [][Next]_vars
SpecSampled == InitSampled /\ [][Next]_vars
(* the training loop goes on calling sample (line 205) for as long as it runs *)
SpecLive == InitLive /\ [][Next]_vars /\ WF_vars(SampleCall)
----------------------------------------------------------------------------
(* Shorthands for the properties *)
Commits == Len(hist.committed)
TheNStep == CHOOSE n \in caller.n_steps : TRUE
AddStep == ret'.op = "add" /\ hist'.adds = hist.adds + 1
CommitStep == AddStep /\ ret'.committed
SampleStep == ret'.op = "sample" /\ hist'.tick # hist.tick
UpdateStep == ret'.op = "update_priorities" /\ hist'.tick # hist.tick
LastSlot == (pos + capacity - 1) % capacity
Occupied == 0..(size - 1)
Slots == 0..(capacity - 1)

(* C1: 0 <= size <= capacity and 0 <= cursor < capacity in every state; the   *)
(* cursor equals size while size < capacity; a commit advances the cursor by *)
(* one modulo capacity and nothing else moves it.                            *)
C1_CursorState ==
    /\ 0 <= size /\ size <= capacity
    /\ 0 <= pos /\ pos < capacity
    /\ (size < capacity => pos = size)
C1_CursorStep ==
    /\ CommitStep => pos' = (pos + 1) % capacity
    /\ ~CommitStep => pos' = pos
C1_Cursor == [](C1_CursorState) /\ [][C1_CursorStep]_vars
C1_Witness ==
    /\ capacity = 2 /\ Commits = 3 /\ pos = 1 /\ size = 2
    /\ hist.others = 1

(* C2: after k commits the store holds exactly the last min(k, capacity)     *)
(* commits, commit j in slot (j-1) mod capacity; a stored transition is       *)
(* replaced only by a commit, at the cursor, and it is then the oldest one   *)
(* still stored.                                                             *)
C2_RingState ==
    /\ size = Min2(Commits, capacity)
    /\ \A j \in 1..Commits :
          j > Commits - capacity => buffer[((j - 1) % capacity) + 1] = hist.committed[j]
C2_RingStep ==
    \A i \in Occupied :
        buffer'[i + 1] # buffer[i + 1] =>
            /\ CommitStep
            /\ i = pos
            /\ size = capacity
            /\ buffer[i + 1] = hist.committed[Commits - capacity + 1]
C2_Ring == [](C2_RingState) /\ [][C2_RingStep]_vars
C2_Witness ==
    /\ capacity = 4 /\ Commits = 5 /\ size = 4 /\ pos = 1
    /\ buffer[1] = hist.committed[5]

(* C3: with one n_step on every add, no commit happens before add number      *)
(* n_step; each earlier add changes the pending window only; the first       *)
(* commit carries the state and action of the first raw transition.          *)
C3_FirstCommitState ==
    Commits >= 1 =>
        /\ hist.commit_at[1] = TheNStep
        /\ hist.committed[1].state = Experience(1, FALSE).state
        /\ hist.committed[1].action = Experience(1, FALSE).action
C3_WarmupStep ==
    (AddStep /\ hist'.adds < TheNStep) =>
        /\ ~ret'.committed
        /\ n_step_buffer' # n_step_buffer
        /\ UNCHANGED <<buffer, priorities, pos, max_priority, beta>>
C3_FirstCommit == [](C3_FirstCommitState) /\ [][C3_WarmupStep]_vars
C3_Witness ==
    /\ caller.n_steps = {3} /\ hist.adds = 3 /\ Commits = 1
    /\ buffer[1].state = <<"s", 1>> /\ buffer[1].action = <<"a", 1>>

(* C4: with one n_step >= 1 on every add, once a commit has happened every    *)
(* add commits, so after a adds there are a - n_step + 1 commits, and the     *)
(* pending window holds the last n_step raw transitions.                     *)
C4_SlidingWindow ==
    Commits >= 1 =>
        /\ Commits = hist.adds - TheNStep + 1
        /\ Len(n_step_buffer) = TheNStep
        /\ \A i \in 1..Len(n_step_buffer) :
              n_step_buffer[i].state = <<"s", hist.adds - Len(n_step_buffer) + i>>

(* C5: capacity 4, n_step 2, gamma 1/2, rewards 1..5: the first commit is     *)
(* made by add 2 with state/action 1 and reward 2, the second by add 3 with  *)
(* state/action 2 and reward 3; after add 5 size = 4, the slots hold the     *)
(* commits of adds 2..5 and the cursor is at slot 0.                         *)
C5_Scenario ==
    (capacity = 4 /\ caller.n_steps = {2} /\ caller.gamma = <<1, 2>>) =>
        /\ hist.adds >= 2 =>
              /\ Commits >= 1
              /\ hist.commit_at[1] = 2
              /\ hist.committed[1].state = <<"s", 1>>
              /\ hist.committed[1].action = <<"a", 1>>
              /\ hist.committed[1].reward = <<2, 1>>
        /\ hist.adds >= 3 =>
              /\ Commits >= 2
              /\ hist.commit_at[2] = 3
              /\ hist.committed[2].state = <<"s", 2>>
              /\ hist.committed[2].action = <<"a", 2>>
              /\ hist.committed[2].reward = <<3, 1>>
        /\ hist.adds = 5 =>
              /\ size = 4
              /\ pos = 0
              /\ hist.commit_at = <<2, 3, 4, 5>>
              /\ buffer = hist.committed

(* C6: with n_step = 3 the commit made from the window (t1, t2, t3) is        *)
(* (t1.state, t1.action, r2 + gamma * r3, t3.next_state, t3.done); r1 is not  *)
(* used, and done flags inside the window do not stop the commit: from the   *)
(* third add on every add commits.                                           *)
C6_Fold ==
    caller.n_steps = {3} =>
        /\ Commits = (IF hist.adds >= 3 THEN hist.adds - 2 ELSE 0)
        /\ (ret.op = "add" /\ ret.committed) =>
              LET t == n_step_buffer
                  c == hist.committed[Commits]
                  g == caller.gamma
              IN  /\ Len(t) = 3
                  /\ c.state = t[1].state
                  /\ c.action = t[1].action
                  /\ c.next_state = t[3].next_state
                  /\ c.done = t[3].done
                  \* c.reward = r2 + gamma * r3, cross-multiplied
                  /\ c.reward[1] * t[2].reward[2] * g[2] * t[3].reward[2] =
                        c.reward[2] * ( t[2].reward[1] * g[2] * t[3].reward[2]
                                      + t[2].reward[2] * g[1] * t[3].reward[1] )
                  /\ c.reward[2] > 0
                  /\ buffer[LastSlot + 1] = c
C6_Witness ==
    /\ caller.n_steps = {3} /\ caller.gamma = <<1, 2>>
    /\ ret.op = "add" /\ ret.committed /\ hist.adds = 4
    /\ n_step_buffer[1].done /\ n_step_buffer[2].done /\ ~n_step_buffer[3].done
    /\ buffer[LastSlot + 1].reward = <<5, 1>>

(* C7: every commit seeds its slot with the max_priority current at the       *)
(* commit; after a lone update_priorities([i], [p]) with p above max_priority *)
(* the next commit seeds its slot with p, whatever sample calls come between. *)
C7_SeedStep ==
    CommitStep =>
        /\ priorities'[pos] = max_priority
        /\ hist.raised # 0 => priorities'[pos] = hist.raised
C7_Seed == [][C7_SeedStep]_vars
C7_Witness ==
    /\ ret.op = "add" /\ ret.committed
    /\ ret.raised = 2 /\ ret.between >= 1
    /\ priorities[LastSlot] = 2

(* C8 as stated: max_priority equals the maximum of 1.0 and every priority    *)
(* value ever passed to update_priorities.                                   *)
C8_Original == max_priority = hist.passed_max

(* C8 amended: max_priority never decreases; it equals the maximum of 1.0 and *)
(* every priority value update_priorities has written (the pairs before the  *)
(* first index that is out of bounds, in a call that raises), and it is at   *)
(* least every slot's priority.                                              *)
C8_MaxState ==
    /\ max_priority = hist.applied_max
    /\ \A i \in Slots : max_priority >= priorities[i]
C8_Max == [](C8_MaxState) /\ [][max_priority' >= max_priority]_vars
C8_Witness ==
    /\ max_priority = 2
    /\ size >= 1
    /\ \A i \in Slots : priorities[i] < 2
    /\ ret.op = "update_priorities" /\ ret.err = "IndexError"

(* C9: while update_priorities is given only indices in [0, size) and         *)
(* non-negative values, every occupied slot has a priority above 0.          *)
C9_PositivePriorities ==
    hist.in_range => \A i \in Occupied : priorities[i] > 0

(* C10: sample on a store with size = 0 returns three empty results, raises   *)
(* nothing and leaves beta and every other field of the store unchanged.     *)
C10_EmptySampleStep ==
    (SampleStep /\ size = 0) =>
        /\ ret'.err = "none"
        /\ ret'.samples = <<>> /\ ret'.indices = <<>> /\ ret'.weights = <<>>
        /\ store' = store
C10_EmptySample == [][C10_EmptySampleStep]_vars
C10_Witness ==
    /\ ret.op = "sample" /\ ret.err = "none" /\ ret.indices = <<>>
    /\ size = 0 /\ Len(n_step_buffer) = 2
    /\ beta \in Betas
----------------------------------------------------------------------------
SumOfProbs == SumTo(Probs(priorities, size, alpha), size)

(* C11: beta never exceeds 1.0 and never decreases; each sample on a non-empty *)
(* store sets beta to min(1.0, beta + beta_increment); add and                *)
(* update_priorities leave beta as it is.                                     *)
C11_BetaStep ==
    /\ beta' <= BetaOne
    /\ beta' >= beta
    /\ (SampleStep /\ size > 0) => beta' = Min2(BetaOne, beta + beta_increment)
    /\ ~SampleStep => beta' = beta
C11_Beta == [][C11_BetaStep]_vars

(* C12: after a sample call on a non-empty store beta has strictly increased, *)
(* as long as beta_increment > 0 and beta is still below 1.0.                 *)
C12_StrictStep ==
    (SampleStep /\ size > 0 /\ beta_increment > 0 /\ beta < BetaOne) => beta' > beta
C12_StrictIncrease == [][C12_StrictStep]_vars

(* C12, the convergence it promises: with beta_increment > 0 and sample       *)
(* called again and again on a store that stays non-empty, beta eventually    *)
(* is 1.0 and stays 1.0.                                                      *)
C12_Converges == (beta_increment > 0 /\ <>[](size > 0)) => <>[](beta = BetaOne)

(* C13: every sample call on a non-empty store, for any batch_size >= 0,       *)
(* returns a weight vector whose maximum is 1.0 and whose entries lie in      *)
(* (0, 1].  A weight is base ** beta with the base a positive rational.       *)
C13_Weights ==
    (ret.op = "sample" /\ size > 0) =>
        /\ ret.err = "none"
        /\ \E k \in DOMAIN ret.weights :
              ret.wbeta = 0 \/ ret.weights[k][1] = ret.weights[k][2]
        /\ \A k \in DOMAIN ret.weights :
              /\ 0 < ret.weights[k][1]
              /\ (ret.wbeta >= 0 => ret.weights[k][1] <= ret.weights[k][2])

(* C14: sample(batch_size) on a non-empty store returns without error three   *)
(* sequences of length batch_size, also when batch_size > size; the k-th      *)
(* transition is the one in slot indices[k] and the k-th weight that slot's.  *)
C14_Batch ==
    (ret.op = "sample" /\ size > 0) =>
        /\ ret.err = "none"
        /\ Len(ret.samples) = ret.batch_size
        /\ Len(ret.indices) = ret.batch_size
        /\ Len(ret.weights) = ret.batch_size
        /\ \A k \in DOMAIN ret.indices :
              /\ ret.indices[k] \in Occupied
              /\ ret.samples[k] = buffer[ret.indices[k] + 1]
              /\ \A j \in DOMAIN ret.indices :
                    ret.indices[j] = ret.indices[k] => ret.weights[j] = ret.weights[k]

(* C15: when update_priorities is only given indices that sample returned,     *)
(* every unoccupied slot holds no transition and priority 0, every index      *)
(* sample returns is in [0, size), and with alpha > 0 no returned index is a  *)
(* slot of priority 0.                                                        *)
C15_Unoccupied ==
    /\ \A i \in Slots \ Occupied : priorities[i] = 0 /\ (i + 1) \notin DOMAIN buffer
    /\ hist.sampled \subseteq Occupied
    /\ ret.op = "sample" =>
          \A k \in DOMAIN ret.indices :
              /\ ret.indices[k] \in Occupied
              /\ alpha > 0 => priorities[ret.indices[k]] > 0
C15_Witness ==
    /\ alpha = 1 /\ capacity = 2 /\ size = 2
    /\ priorities[0] = 0 /\ priorities[1] > 0
    /\ ret.op = "sample" /\ ret.indices = <<1, 1>>

(* C16: with alpha = 0 every occupied slot has probability exactly 1/size,     *)
(* whatever the priorities are (0 included), and the weights sample returns   *)
(* are all equal.                                                             *)
C16_Uniform ==
    (alpha = 0 /\ size > 0) =>
        /\ \A i \in Occupied : SampleProbs(priorities, size, alpha)[i] = <<1, size>>
        /\ ret.op = "sample" =>
              \A j, k \in DOMAIN ret.weights : ret.weights[j] = ret.weights[k]
C16_Witness ==
    /\ alpha = 0 /\ size = 2
    /\ priorities[0] = 0 /\ priorities[1] = 2
    /\ ret.op = "sample" /\ ret.indices = <<0, 1>> /\ ret.weights = <<<<1, 1>>, <<1, 1>>>>

(* C17: update_priorities given an index outside [0, size) fails with a bounds *)
(* error at that pair: the pairs before it are applied, that pair and the     *)
(* later ones are not, and max_priority stays at least every stored priority. *)
C17_BoundsError ==
    (ret.op = "update_priorities" /\ ret.first_oob > 0) =>
        /\ ret.err = "IndexError"
        /\ ret.applied = ret.first_oob - 1
        /\ \A i \in Slots : max_priority >= priorities[i]

(* C18: size never decreases; once size = capacity it stays so; the add that   *)
(* brings size to capacity changes only the slot it writes, the cursor, size  *)
(* and the pending window: every other slot's transition and priority,        *)
(* max_priority and beta stay as they were.                                   *)
C18_Step ==
    /\ size' >= size
    /\ size = capacity => size' = capacity
    /\ (size < capacity /\ size' = capacity) =>
            /\ CommitStep
            /\ size' = size + 1
            /\ \A i \in Slots \ {pos} : priorities'[i] = priorities[i]
            /\ \A i \in Occupied \ {pos} : buffer'[i + 1] = buffer[i + 1]
            /\ UNCHANGED <<max_priority, beta, capacity, alpha, beta_increment>>
C18_FillOnce == [][C18_Step]_vars
C18_Witness ==
    /\ capacity = 3 /\ size = 3 /\ Commits = 3
    /\ ret.op = "add" /\ ret.committed
    /\ priorities[0] = 0 /\ priorities[1] = 1 /\ hist.others = 1

(* C19: whenever sample runs on a non-empty store, the sum over the occupied   *)
(* slots of priority ** alpha is above 0.                                     *)
C19_NoZeroSum == (ret.op = "sample" /\ size > 0) => SumOfProbs > 0

(* C20: sample changes nothing but beta: transitions, priorities, cursor,      *)
(* size, max_priority, the pending window and the configuration are the same  *)
(* before and after the call.                                                 *)
C20_SampleStep ==
    SampleStep => UNCHANGED <<buffer, priorities, pos, max_priority, n_step_buffer,
                              capacity, alpha, beta_increment>>
C20_SampleFrame == [][C20_SampleStep]_vars
C20_Witness ==
    /\ ret.op = "sample" /\ ret.indices # <<>>
    /\ priorities[0] = 2 /\ max_priority = 2 /\ size = 2
    /\ beta = BetaOne /\ ret.wbeta < BetaOne
====
